---- MODULE Spec2Model ----
(***************************************************************************)
(* A model of nxml2txt's document model (nxmldoc.py: NxmlDoc, the passage  *)
(* assembly of build_simple_document_dataframe and                         *)
(* build_enhanced_document_dataframe) and of its math pass (rewritetex.py: *)
(* normalize_tex, the caches, tex2str, process_tree).                      *)
(*                                                                         *)
(* Python strings are TLA+ strings, read character by character with       *)
(* SubSeq; Python's None is the string None, which no text of the model    *)
(* equals.  A Standoff object is known by its position in self.standoffs   *)
(* (object identity), so lists of standoffs are sequences of positions.    *)
(***************************************************************************)
EXTENDS Integers, Sequences, FiniteSets, TLC

VARIABLES
    text,           \* NxmlDoc.text
    standoffs,      \* NxmlDoc.standoffs: sequence of Standoff records
    refs,           \* the <ref> elements of NxmlDoc.xml, in document order
    fn,             \* the build_*_document_dataframe method being run
    pc,             \* where that call stands
    text_so_list,   \* its local text_so_list (positions in standoffs)
    last_so,        \* its local last_so (a position, or 0 for None)
    k,              \* index of the tiling / emitting loop
    text_tuples,    \* its local text_tuples
    ret,            \* what the call returned or raised
    calls,          \* how many build calls this NxmlDoc has completed
    first,          \* the first build call completed: what it was and gave,
                    \* kept where repeated calls are followed
    elems,          \* the tex-math elements of the tree process_tree is given
    cache,          \* the cache's map from normalized tex to text
    stats,          \* the Stats object
    e_,             \* process_tree's loop variable e, as an index into elems
    tpc,            \* where process_tree / tex2str stands
    tmpfile,        \* whether tex2str's NamedTemporaryFile exists
    outdir,         \* what the tex runs have written into TEX_OUTPUTDIR
    tex_out_fn,     \* tex2str's local tex_out_fn
    s_,             \* what tex2str returned to process_tree
    tret,           \* what process_tree returned or raised
    pfile,          \* the file at PICKLE_CACHE_PATH
    dbfile,         \* the sqlite database at SQLITE_CACHE_PATH
    pl,             \* the pipelines: each one's cache object and position
    log,            \* the calls of set that have returned, oldest first
    argv,           \* the argument list nxmldoc.main is given
    nxml_exists,    \* whether a file exists at nxml_file_path
    mpc,            \* where nxmldoc.main stands
    mret,           \* what nxmldoc.main returned or raised
    stderr,         \* what nxmldoc.main has written to sys.stderr
    made            \* the paths nxmldoc.main has created or written

docvars == <<text, standoffs, refs, fn, pc, text_so_list, last_so, k,
             text_tuples, ret, calls, first>>

texvars == <<elems, cache, stats, e_, tpc, tmpfile, outdir, tex_out_fn, s_, tret>>

cachevars == <<pfile, dbfile, pl, log>>

mainvars == <<argv, nxml_exists, mpc, mret, stderr, made>>

vars == <<docvars, texvars, cachevars, mainvars>>

-----------------------------------------------------------------------------
(* Python values *)

None == "<None>"

Min(a, b) == IF a < b THEN a ELSE b
Max(a, b) == IF a > b THEN a ELSE b

Ch(s, i) == IF 1 <= i /\ i <= Len(s) THEN SubSeq(s, i, i) ELSE ""

\* s[i-1:] for a Python str
Rest(s, i) == IF i > Len(s) THEN "" ELSE SubSeq(s, i, Len(s))

\* s[a:b] for a Python str, negative indices counted from the end
Slice(s, a, b) ==
    LET n  == Len(s)
        lo == IF a < 0 THEN Max(a + n, 0) ELSE Min(a, n)
        hi == IF b < 0 THEN Max(b + n, 0) ELSE Min(b, n)
    IN  IF lo < hi THEN SubSeq(s, lo + 1, hi) ELSE ""

RECURSIVE JoinSeq(_, _, _)
\* the concatenation of the sequences pieces[lo..hi]
JoinSeq(pieces, lo, hi) ==
    IF lo > hi THEN <<>>
    ELSE IF lo = hi THEN pieces[lo]
    ELSE LET mid == (lo + hi) \div 2
         IN  JoinSeq(pieces, lo, mid) \o JoinSeq(pieces, mid + 1, hi)

RECURSIVE Join(_, _, _)
\* "".join(pieces[lo..hi])
Join(pieces, lo, hi) ==
    IF lo > hi THEN ""
    ELSE IF lo = hi THEN pieces[lo]
    ELSE LET mid == (lo + hi) \div 2
         IN  Join(pieces, lo, mid) \o Join(pieces, mid + 1, hi)

\* lit occurs in s at position i
StartsAt(s, i, lit) == i >= 1 /\ i + Len(lit) - 1 <= Len(s)
                       /\ SubSeq(s, i, i + Len(lit) - 1) = lit

RECURSIVE StripNs(_)
\* re.sub('\{.*?\}', '', tag)
StripNs(tag) ==
    LET opens == {i \in 1..Len(tag) :
                    Ch(tag, i) = "{" /\ \E j \in i+1..Len(tag) : Ch(tag, j) = "}"}
    IN  IF opens = {} THEN tag
        ELSE LET i == CHOOSE x \in opens : \A y \in opens : x <= y
                 j == CHOOSE x \in i+1..Len(tag) :
                        Ch(tag, x) = "}" /\ \A y \in i+1..x-1 : Ch(tag, y) # "}"
             IN  SubSeq(tag, 1, i - 1) \o StripNs(Rest(tag, j + 1))

\* sorted(lst, key=lambda x: x.start), lst a sequence of positions in so:
\* the sort is stable, so an element comes after those with a smaller key and
\* those with its own key that precede it in lst
SortedByStart(lst, so) ==
    LET Before(i) == {j \in 1..Len(lst) :
                        \/ so[lst[j]].start < so[lst[i]].start
                        \/ so[lst[j]].start = so[lst[i]].start /\ j < i}
        \* how many elements come before lst[i], for each i, as a tuple
        rank == [i \in 1..Len(lst) |-> Cardinality(Before(i))] \o <<>>
    IN  [r \in 1..Len(lst) |-> lst[CHOOSE i \in 1..Len(lst) : rank[i] = r - 1]]

\* element.find("title"): the first child whose tag is exactly "title"
FindTitle(s) ==
    LET hits == {i \in 1..Len(s.children) : s.children[i].tag = "title"}
    IN  IF hits = {} THEN None
        ELSE s.children[CHOOSE x \in hits : \A y \in hits : x <= y].text

HasTitle(s) == \E i \in 1..Len(s.children) : s.children[i].tag = "title"

\* element.get(name, default)
AttrGet(s, name, default) ==
    IF name \in DOMAIN s.attrib THEN s.attrib[name] ELSE default

-----------------------------------------------------------------------------
(* AnnotationIndex: the queries of NxmlDoc over self.standoffs *)

AllPositions(so) == [i \in 1..Len(so) |-> i]

\* the hits loop taking a span's end offset as inside it
Hits_EndInclusive(t, so) ==
    LET pos == so[t].start
        IsHit(p) == pos >= so[p].start /\ pos <= so[p].end /\ p # t
    IN  SelectSeq(SortedByStart(AllPositions(so), so), IsHit)

\* the hits loop shared by get_figure_reference, get_sec_tree, get_sec_tag,
\* get_top_level_sec_tag and generate_tag_tree
Hits(t, so) ==
    LET pos == so[t].start
        IsHit(p) == pos >= so[p].start /\ pos < so[p].end /\ p # t
    IN  SelectSeq(SortedByStart(AllPositions(so), so), IsHit)

get_figure_reference(t, so) ==
    LET hits == Hits(t, so)
        figs == {i \in 1..Len(hits) : so[hits[i]].tag = "fig"}
    IN  IF figs = {} THEN ""
        ELSE AttrGet(so[hits[CHOOSE x \in figs : \A y \in figs : x <= y]], "id", "")

RECURSIVE SecTreeFrom(_, _, _)
SecTreeFrom(hits, so, sec_tree) ==
    IF hits = <<>> THEN sec_tree
    ELSE LET s  == so[Head(hits)]
             t1 == IF Len(sec_tree) > 0 THEN sec_tree \o " >> " ELSE sec_tree
             t2 == IF HasTitle(s) /\ FindTitle(s) # None
                   THEN t1 \o FindTitle(s) ELSE t1 \o " ??? "
         IN  SecTreeFrom(Tail(hits), so, IF s.tag = "sec" THEN t2 ELSE sec_tree)

get_sec_tree(t, so) == SecTreeFrom(Hits(t, so), so, "")

get_sec_tag(t, so) ==
    LET hits == Hits(t, so)
        secs == {i \in 1..Len(hits) : so[hits[i]].tag = "sec"}
    IN  IF secs = {} THEN ""
        ELSE LET sec == so[hits[CHOOSE x \in secs : \A y \in secs : x >= y]]
             IN  IF HasTitle(sec) THEN FindTitle(sec) ELSE ""

RECURSIVE TopLevelFrom(_, _)
TopLevelFrom(hits, so) ==
    IF hits = <<>> THEN ""
    ELSE LET s == so[Head(hits)]
         IN  IF s.tag = "sec" /\ AttrGet(s, "sec-type", "") # ""
             THEN AttrGet(s, "sec-type", "")
             ELSE IF s.tag = "sec" /\ HasTitle(s) THEN FindTitle(s)
             ELSE TopLevelFrom(Tail(hits), so)

get_top_level_sec_tag(t, so) == TopLevelFrom(Hits(t, so), so)

RECURSIVE JoinTags(_, _)
JoinTags(hits, so) ==
    IF hits = <<>> THEN ""
    ELSE IF Len(hits) = 1 THEN so[hits[1]].tag
    ELSE so[hits[1]].tag \o "|" \o JoinTags(Tail(hits), so)

generate_tag_tree(t, so) == JoinTags(Hits(t, so), so) \o "." \o so[t].tag

-----------------------------------------------------------------------------
(* ReferenceExtractor: NxmlDoc.extract_ref_dict_from_nxml(search_pubmed=False) *)

\* s.replace(c, repl) for a single character c
\* re.sub(c, repl, s) for a one-character pattern c
ReplaceAll(s, c, repl) ==
    Join([i \in 1..Len(s) |-> IF Ch(s, i) = c THEN repl ELSE Ch(s, i)], 1, Len(s))

EscQuote(s) == ReplaceAll(s, "'", "''")

IsDigit(c) == c \in {"0", "1", "2", "3", "4", "5", "6", "7", "8", "9"}

\* re.match("(\\d\\d\\d\\d)", s)
YearMatch(s) == Len(s) >= 4 /\ \A i \in 1..4 : IsDigit(Ch(s, i))

\* ref_dict = {}; ref_dict["ref"] = r.attrs.get("id"); ref_dict["author"] = ""
\* (a key the dict does not hold is None here)
NewRefDict(id) ==
    [ref |-> id, author |-> "", first_author |-> None, second_author |-> None,
     title |-> None, journal |-> None, year |-> None, vol |-> None,
     page |-> None]

\* the body of "for t in r.descendants" for one Tag t
RefStep(d, t) ==
    LET d1 == IF t.name = "surname" /\ d.first_author = None
              THEN [d EXCEPT !.first_author = EscQuote(t.text)] ELSE d
        d2 == IF t.name = "surname" /\ d1.first_author # None
              THEN [d1 EXCEPT !.second_author = EscQuote(t.text)] ELSE d1
        d3 == IF t.name = "name" /\ Len(d2.author) > 0
              THEN [d2 EXCEPT !.author = @ \o ", "] ELSE d2
        d4 == IF t.name = "surname"
              THEN [d3 EXCEPT !.author = @ \o EscQuote(t.text)] ELSE d3
    IN  CASE t.name = "given-names" ->
                [d4 EXCEPT !.author = @ \o " " \o EscQuote(t.text)]
          [] t.name = "article-title" -> [d4 EXCEPT !.title = EscQuote(t.text)]
          [] t.name = "source" -> [d4 EXCEPT !.journal = t.text]
          [] t.name = "year" ->
                IF YearMatch(t.text)
                THEN [d4 EXCEPT !.year = SubSeq(t.text, 1, 4)] ELSE d4
          [] t.name = "volume" -> [d4 EXCEPT !.vol = t.text]
          [] t.name = "fpage" -> [d4 EXCEPT !.page = t.text]
          [] OTHER -> d4

RECURSIVE RefFold(_, _)
\* "for t in r.descendants" (no step reassigns ref_dict["ref"])
RefFold(d, desc) ==
    IF desc = <<>> THEN d
    ELSE LET d2 == RefStep(d, Head(desc))
         IN  IF d2.ref = d.ref THEN RefFold(d2, Tail(desc)) ELSE d2

\* all_ref_dict[key] = d on a dict kept as the sequence of its values in
\* insertion order (a key set again keeps its place)
DictSet(dict, d) ==
    IF \E i \in 1..Len(dict) : dict[i].ref = d.ref
    THEN [i \in 1..Len(dict) |-> IF dict[i].ref = d.ref THEN d ELSE dict[i]]
    ELSE Append(dict, d)

RECURSIVE ExtractFrom(_, _)
ExtractFrom(rs, dict) ==
    IF rs = <<>> THEN dict
    ELSE ExtractFrom(Tail(rs),
                     DictSet(dict, RefFold(NewRefDict(Head(rs).id), Head(rs).desc)))

extract_ref_dict_from_nxml(rs) == ExtractFrom(rs, <<>>)

\* ref_dict.get(ref_id, None): the entry, or a record whose ref is None
DictGet(dict, key) ==
    IF \E i \in 1..Len(dict) : dict[i].ref = key
    THEN dict[CHOOSE i \in 1..Len(dict) : dict[i].ref = key]
    ELSE NewRefDict(None)

\* ref.get(field, default)
Get(v, default) == IF v = None THEN default ELSE v

\* truth value of ref.get(field)
Truthy(v) == v # None /\ v # ""

\* "<<REF:%s-%s-%s-%s>>" % (...); no entry built by
\* extract_ref_dict_from_nxml holds a "pmid" key, so ref.get("pmid") is None
RefToken(ref) ==
    "<<REF:" \o Get(ref.first_author, "???") \o "-" \o Get(ref.year, "?")
    \o "-" \o Get(ref.vol, "?") \o "-" \o Get(ref.page, "?") \o ">>"

-----------------------------------------------------------------------------
(* html.unescape, for the character references the texts of the model can   *)
(* hold: &lt &gt &amp, each with or without its semicolon                   *)

EntityNames == <<"amp", "lt", "gt">>
EntityChar(name) == CASE name = "amp" -> "&" [] name = "lt" -> "<" [] OTHER -> ">"

\* html.unescape(s), for the three entities above, with or without ";"
Unescape(s) ==
    LET Names(i)   == {n \in 1..Len(EntityNames) :
                         Ch(s, i) = "&" /\ StartsAt(s, i + 1, EntityNames[n])}
        IsStart(i) == Names(i) # {}
        Name(i)    == EntityNames[CHOOSE n \in Names(i) : TRUE]
        EndOf(i)   == LET e == i + Len(Name(i))
                      IN  IF Ch(s, e + 1) = ";" THEN e + 1 ELSE e
        Covered(i) == \E j \in 1..(i - 1) : IsStart(j) /\ i <= EndOf(j)
    IN  Join([i \in 1..Len(s) |->
                IF Covered(i) THEN ""
                ELSE IF IsStart(i) THEN EntityChar(Name(i)) ELSE Ch(s, i)],
             1, Len(s))


-----------------------------------------------------------------------------
(* The regular expressions of the regex fallback, matched the way Python's  *)
(* backtracking matcher does: every way a pattern can match from a position *)
(* is listed in the matcher's order of preference, the first is the match.  *)
(* A pattern is a sequence of parts: a literal, \s+, [A-Za-z]+, a digit, or *)
(* a group (alt1|alt2|...){0,1} or (alt1|alt2) of sub-patterns.             *)

IsSpace(c) == c \in {" ", "\t", "\n", "\r"}
IsAlpha(c) == c \in {"a", "b", "c", "d", "e", "f", "g", "h", "i", "j", "k", "l",
                     "m", "n", "o", "p", "q", "r", "s", "t", "u", "v", "w", "x",
                     "y", "z", "A", "B", "C", "D", "E", "F", "G", "H", "I", "J",
                     "K", "L", "M", "N", "O", "P", "Q", "R", "S", "T", "U", "V",
                     "W", "X", "Y", "Z"}

Lit(str)  == [kind |-> "lit",   s |-> str, alts |-> <<>>]
SpacePlus == [kind |-> "space", s |-> "",  alts |-> <<>>]
AlphaPlus == [kind |-> "alpha", s |-> "",  alts |-> <<>>]
Digit     == [kind |-> "digit", s |-> "",  alts |-> <<>>]
Opt(as)   == [kind |-> "opt",   s |-> "",  alts |-> as]
Alt(as)   == [kind |-> "alt",   s |-> "",  alts |-> as]
Star(as)  == [kind |-> "star",  s |-> "",  alts |-> as]
NotStar(chars) == [kind |-> "notstar", s |-> chars, alts |-> <<>>]

\* the length of the longest run of characters outside chars starting at s[i]
RunLenNot(s, i, chars) ==
    LET ok(j) == \A c \in 1..Len(chars) : Ch(s, j) # Ch(chars, c)
        ends  == {n \in 0..(Len(s) - i + 1) : \A j \in i..(i + n - 1) : ok(j)}
    IN  CHOOSE n \in ends : \A m \in ends : m <= n

\* the length of the longest run of characters of a class starting at s[i]
RunLen(s, i, space) ==
    LET ok(j) == IF space THEN IsSpace(Ch(s, j)) ELSE IsAlpha(Ch(s, j))
        ends  == {n \in 0..(Len(s) - i + 1) : \A j \in i..(i + n - 1) : ok(j)}
    IN  CHOOSE n \in ends : \A m \in ends : m <= n

RECURSIVE MatchEnds(_, _, _)
RECURSIVE MatchAlts(_, _, _, _)
RECURSIVE MatchRest(_, _, _)
RECURSIVE MatchStar(_, _, _)
RECURSIVE MatchStarRest(_, _, _, _)

\* the positions after each match of pattern parts at s[i], preferred first
MatchEnds(parts, s, i) ==
    IF parts = <<>> THEN <<i>>
    ELSE LET p == Head(parts)
             firsts ==
               CASE p.kind = "lit" ->
                      IF StartsAt(s, i, p.s) \/ p.s = "" THEN <<i + Len(p.s)>> ELSE <<>>
                 [] p.kind = "digit" ->
                      IF i <= Len(s) /\ IsDigit(Ch(s, i)) THEN <<i + 1>> ELSE <<>>
                 [] p.kind \in {"space", "alpha"} ->
                      LET n == RunLen(s, i, p.kind = "space")
                      IN  [j \in 1..n |-> i + n - j + 1]
                 [] p.kind = "notstar" ->
                      LET n == RunLenNot(s, i, p.s)
                      IN  [j \in 1..(n + 1) |-> i + n - j + 1]
                 [] p.kind = "star" -> MatchStar(p.alts, s, i)
                 [] p.kind = "opt" -> MatchAlts(p.alts, s, i, <<i>>)
                 [] OTHER -> MatchAlts(p.alts, s, i, <<>>)
         IN  IF Len(parts) = 1 THEN firsts ELSE MatchRest(firsts, Tail(parts), s)

\* the alternatives of a group in order, then what {0,1} adds
MatchAlts(alts, s, i, skip) ==
    IF alts = <<>> THEN skip
    ELSE MatchEnds(Head(alts), s, i) \o MatchAlts(Tail(alts), s, i, skip)

\* (alt1|...)*: one more round of the group wherever a round ends, then none
MatchStar(alts, s, i) == MatchStarRest(MatchAlts(alts, s, i, <<>>), alts, s, i) \o <<i>>

MatchStarRest(ends, alts, s, i) ==
    IF ends = <<>> THEN <<>>
    ELSE (IF Head(ends) > i THEN MatchStar(alts, s, Head(ends)) ELSE <<>>)
         \o MatchStarRest(Tail(ends), alts, s, i)

\* every way the rest of a pattern matches after each match of its first part
MatchRest(firsts, rest, s) ==
    IF firsts = <<>> THEN <<>>
    ELSE MatchEnds(rest, s, Head(firsts)) \o MatchRest(Tail(firsts), rest, s)

\* pattern.search(s)
Search(parts, s) == \E i \in 1..(Len(s) + 1) : MatchEnds(parts, s, i) # <<>>

\* where the leftmost match at or after s[i] starts, 0 if there is none
\* (no pattern here matches "")
NextMatch(parts, s, i) ==
    LET starts == {j \in i..Len(s) :
                     LET ends == MatchEnds(parts, s, j)
                     IN  ends # <<>> /\ Head(ends) > j}
    IN  IF starts = {} THEN 0 ELSE CHOOSE x \in starts : \A y \in starts : x <= y

RECURSIVE SubFrom(_, _, _, _)
\* pattern.sub(repl, s) from position i on
SubFrom(parts, repl, s, i) ==
    LET j == NextMatch(parts, s, i)
    IN  IF j = 0 THEN Rest(s, i)
        ELSE Slice(s, i - 1, j - 1) \o repl
             \o SubFrom(parts, repl, s, Head(MatchEnds(parts, s, j)))

\* pattern.sub(repl, s, count=1): only the leftmost match is replaced
Sub_Once(parts, repl, s) ==
    LET starts == {i \in 1..Len(s) : MatchEnds(parts, s, i) # <<>>}
        i == CHOOSE x \in starts : \A y \in starts : x <= y
    IN  IF starts = {} THEN s
        ELSE SubSeq(s, 1, i - 1) \o repl \o Rest(s, Head(MatchEnds(parts, s, i)))

\* pattern.sub(repl, s)
Sub(parts, repl, s) == IF s = "" THEN "" ELSE SubFrom(parts, repl, s, 1)

\* the three pattern shapes of the fallback
EtAl == <<<<Lit(",")>>, <<SpacePlus, Lit("et al.,")>>, <<SpacePlus, Lit("et al")>>>>

RefRegex(ref) ==
    IF Truthy(ref.year) /\ Truthy(ref.second_author)
    THEN <<Lit(Get(ref.first_author, "")),
           Opt(<<<<Lit(" and " \o Get(ref.second_author, "") \o ",")>>>> \o EtAl),
           SpacePlus, Lit(Get(ref.year, ""))>>
    ELSE IF Truthy(ref.year) /\ Len(Get(ref.first_author, "")) > 0
    THEN <<Lit(Get(ref.first_author, "")), Opt(EtAl),
           SpacePlus, Lit(Get(ref.year, ""))>>
    ELSE <<Lit(Get(ref.first_author, "")),
           Opt(<<<<Lit(" and "), AlphaPlus>>>> \o EtAl),
           SpacePlus, Alt(<<<<Lit("19")>>, <<Lit("20")>>>>), Digit, Digit>>

RECURSIVE RegexFallback(_, _)
\* "for key in ref_dict": one pattern.sub per reference entry, in dict order
RegexFallback(dict, so_text) ==
    IF dict = <<>> \/ so_text = "" THEN so_text
    ELSE LET ref      == Head(dict)
             ref_text == " " \o RefToken(ref) \o " "
             pattern  == RefRegex(ref)
         IN  RegexFallback(Tail(dict),
                           IF Search(pattern, so_text)
                           THEN Sub(pattern, ref_text, so_text) ELSE so_text)


-----------------------------------------------------------------------------
(* PassageAssembler: build_simple_document_dataframe ("simple") and         *)
(* build_enhanced_document_dataframe ("enhanced")                           *)

text_tag_types ==
    <<<<"front", "article-title">>, <<"front", "abstract">>, <<"body", "p">>,
      <<"body", "title">>, <<"body", "label">>, <<"back", "p">>,
      <<"back", "title">>>>

\* the key a standoff is filed under in this_doc_standoffs
Key(m, s) == IF m = "enhanced" THEN StripNs(s.tag) ELSE s.tag

\* this_doc_standoffs.get(tag), tag one of the keys of self.tag_types
ByTag(m, so, tag) ==
    LET IsTag(p) == Key(m, so[p]) = tag IN SelectSeq(AllPositions(so), IsTag)

all_xrefs(m, so) == ByTag(m, so, "xref")

\* the inner loop of the selection: the tag standoffs inside part_so
Contained(m, so, part, tag) ==
    LET part_so   == so[ByTag(m, so, part)[1]]
        Inside(p) == ~(so[p].start < part_so.start \/ so[p].end > part_so.end)
    IN  SelectSeq(ByTag(m, so, tag), Inside)

\* text_so_list after the selection loop over the given text_tag_types; the
\* simple method skips a part the document lacks
SelectFrom(m, so, types) ==
    JoinSeq([i \in 1..Len(types) |->
                IF ByTag(m, so, types[i][1]) = <<>> THEN <<>>
                ELSE Contained(m, so, types[i][1], types[i][2])],
            1, Len(types))

\* this_doc_standoffs.get(part)[0] of the enhanced method raises IndexError
\* for a part the document lacks
SelectionRaises(m, so) ==
    m = "enhanced"
    /\ \E i \in 1..Len(text_tag_types) : ByTag(m, so, text_tag_types[i][1]) = <<>>

\* TileEnd moving the end back again on every pass
TileEnd_Creeps(last, cur) ==
    IF last.end > cur.start THEN cur.start - 1 ELSE last.end - 1

\* TileEnd cutting one character too late
TileEnd_CutsLate(last, cur) ==
    IF last.end > cur.start THEN cur.start + 1 ELSE last.end

\* the body of the tiling loop for candidate so: the new end of last_so
TileEnd(last, cur) == IF last.end > cur.start THEN cur.start - 1 ELSE last.end

\* the xrefs a list comprehension over all_xrefs keeps for candidate c
InsideXrefs(m, so, c) ==
    LET In(p) == so[p].start >= so[c].start /\ so[p].end <= so[c].end
    IN  SelectSeq(all_xrefs(m, so), In)

OfType(so, xs, types) ==
    LET Is(p) == so[p].attrib["ref-type"] \in types IN SelectSeq(xs, Is)

\* x.element.attrib["ref-type"] or x.element.attrib["rid"] raises KeyError
XrefKeyError(m, so, c) ==
    \E i \in 1..Len(InsideXrefs(m, so, c)) :
        LET a == so[InsideXrefs(m, so, c)[i]].attrib
        IN  \/ "ref-type" \notin DOMAIN a
            \/ a["ref-type"] \in {"bibr", "fig"} /\ "rid" \notin DOMAIN a

\* ref_text of the explicit path
XrefRefText(dict, rid) ==
    IF \E i \in 1..Len(dict) : dict[i].ref = rid
    THEN RefToken(DictGet(dict, rid)) ELSE "<<REF>>"

RECURSIVE Piecewise(_, _, _, _, _, _)
\* "for x in refbib_xrefs" / "for x in fig_xrefs" and the tail after it
Piecewise(txt, so, xs, dict, prev_end, so_end) ==
    IF xs = <<>> THEN Slice(txt, prev_end, so_end)
    ELSE LET x == so[Head(xs)]
             sub == IF x.attrib["ref-type"] = "bibr"
                    THEN XrefRefText(dict, x.attrib["rid"])
                    ELSE Slice(txt, x.start, x.end) \o " <<FIG:"
                         \o x.attrib["rid"] \o ">>"
         IN  Slice(txt, prev_end, x.start) \o sub
             \o Piecewise(txt, so, Tail(xs), dict, x.end, so_end)

\* so_text of the enhanced method for candidate c
EnhancedText(txt, so, dict, c) ==
    LET inside == InsideXrefs("enhanced", so, c)
    IN  IF Len(OfType(so, inside, {"bibr"})) > 0
        THEN Unescape(Piecewise(txt, so, OfType(so, inside, {"bibr", "fig"}),
                                dict, so[c].start, so[c].end))
        ELSE RegexFallback(dict,
                 Unescape(Piecewise(txt, so, OfType(so, inside, {"fig"}),
                                    dict, so[c].start, so[c].end)))

TIAB == "TIAB"

\* the tuple appended to text_tuples for candidate c, numbered local_id (its
\* first column, self.ft_id, is the same in every row and left out)
SimpleRow(txt, so, c, local_id) ==
    LET tiab == so[c].tag = "article-title" \/ so[c].tag = "abstract"
    IN  [PARAGRAPH_ID |-> local_id,
         TAG          |-> so[c].tag,
         TOP_SECTION  |-> IF tiab THEN TIAB ELSE get_top_level_sec_tag(c, so),
         SECTION_TREE |-> IF tiab THEN TIAB ELSE get_sec_tree(c, so),
         SECTION      |-> IF tiab THEN TIAB ELSE get_sec_tag(c, so),
         OFFSET       |-> so[c].start,
         LENGTH       |-> so[c].end - so[c].start,
         FIG_REF      |-> get_figure_reference(c, so),
         PLAIN_TEXT   |-> Slice(txt, so[c].start, so[c].end)]

EnhancedRow(txt, so, dict, c, local_id) ==
    [PARAGRAPH_ID |-> local_id,
     TAG          |-> StripNs(so[c].tag),
     TOP_SECTION  |-> get_top_level_sec_tag(c, so),
     SECTION_TREE |-> get_sec_tree(c, so),
     SECTION      |-> get_sec_tag(c, so),
     OFFSET       |-> so[c].start,
     LENGTH       |-> so[c].end - so[c].start,
     FIG_REF      |-> get_figure_reference(c, so),
     PLAIN_TEXT   |-> EnhancedText(txt, so, dict, c)]


-----------------------------------------------------------------------------
(* rewritetex.py: normalize_tex *)

Lits(strs) == [i \in 1..Len(strs) |-> <<Lit(strs[i])>>]

texdecl_re ==
    <<Lit("\\"),
      Alt(Lits(<<"documentclass", "usepackage", "setlength", "pagestyle">>)),
      Opt(<<<<Lit("["), NotStar("[]"), Lit("]")>>>>),
      Star(<<<<Lit("{"), NotStar("{}"), Lit("}")>>>>)>>

texstdpack_re ==
    <<Lit("\\usepackage{"),
      Alt(Lits(<<"amsbsy", "amsfonts", "amsmath", "amssymb", "mathrsfs",
                 "upgreek", "wasysym">>)),
      Lit("}")>>

space_re == <<SpacePlus>>

\* docstartspace_re.sub("", s) and docendspace_re.sub("", s)
StripStart(s) == Rest(s, 1 + RunLen(s, 1, TRUE))

StripEnd(s) ==
    LET tails == {n \in 0..Len(s) : \A j \in (Len(s) - n + 1)..Len(s) : IsSpace(Ch(s, j))}
    IN  SubSeq(s, 1, Len(s) - (CHOOSE n \in tails : \A m \in tails : m <= n))

normalize_tex(s) ==
    StripEnd(StripStart(Sub(space_re, " ",
        Sub(texdecl_re, "", Sub(texstdpack_re, "", s)))))

-----------------------------------------------------------------------------
(* rewritetex.py: tex_compile, run_catdvi, tex2str, rewrite_tex_element *)

REWRITTEN_TAG       == "n2t-tex"
ORIG_TAG_ATTRIBUTE  == "orig-tag"
ORIG_TEXT_ATTRIBUTE == "orig-text"

\* exceptions that leave tex2str
TypeError == "<TypeError>"
UnicodeDecodeError == "<UnicodeDecodeError>"

\* What one run of tex can come to, seen from tex_compile:
\*   popen_error  Popen raises IOError
\*   no_output    tex reports "No pages of output" and names no output file
\*   named        tex reports "Output written on <file>"
\*   unnamed      tex reports neither
\*   undecodable  tex's output is not UTF-8
TexOutcomes == {"popen_error", "no_output", "named", "unnamed", "undecodable"}

\* the files one run of tex leaves in TEX_OUTPUTDIR
TexArtifacts(outcome) ==
    CASE outcome = "popen_error" -> {}
      [] outcome = "no_output" -> {"log", "aux"}
      [] OTHER -> {"log", "aux", "dvi"}

\* tex_compile(fn): None, "" or the name of the output file; UnicodeDecodeError
\* when tex_out.decode("utf-8") raises
tex_compile(outcome) ==
    CASE outcome \in {"popen_error", "no_output"} -> None
      [] outcome = "named" -> "/tmp/tmp.dvi"
      [] outcome = "unnamed" -> ""
      [] OTHER -> UnicodeDecodeError

\* What one run of catdvi can come to, seen from run_catdvi: Popen raises
\* IOError, or catdvi's standard output as bytes (utf8: whether they decode)
CatdviOutcomes ==
    {[popen_error |-> TRUE,  bytes |-> "",       utf8 |-> TRUE],
     [popen_error |-> FALSE, bytes |-> "",       utf8 |-> TRUE],
     [popen_error |-> FALSE, bytes |-> " \n",    utf8 |-> TRUE],
     [popen_error |-> FALSE, bytes |-> " x  y\n", utf8 |-> TRUE],
     [popen_error |-> FALSE, bytes |-> "z",      utf8 |-> TRUE],
     [popen_error |-> FALSE, bytes |-> "x?",     utf8 |-> FALSE]}

\* run_catdvi(fn): the bytes; TypeError is what the two-argument
\* sys.stderr.write of its IOError handler raises
run_catdvi(outcome) == IF outcome.popen_error THEN TypeError ELSE outcome.bytes

\* tex2str from "dvistr = run_catdvi(tex_out_fn)" on: the string returned, None,
\* or TypeError: the one run_catdvi raised, or the one that
\* re.sub(r"\s+", " ", dvistr) raises on the bytes that dvistr still is after
\* the UnicodeDecodeError handler
tex2str_tail(outcome) ==
    LET dvistr == run_catdvi(outcome)
    IN  IF dvistr = TypeError THEN TypeError
        ELSE IF ~outcome.utf8 THEN TypeError
        ELSE IF dvistr = "" THEN None
        ELSE StripEnd(StripStart(Sub(<<SpacePlus>>, " ", dvistr)))

\* rewrite_tex_element(e, s) fails its assertion on an element that already
\* has one of the two attributes
RewriteAsserts(el) ==
    ORIG_TAG_ATTRIBUTE \in DOMAIN el.attrib \/ ORIG_TEXT_ATTRIBUTE \in DOMAIN el.attrib

rewrite_tex_element(el, s) ==
    [tag    |-> REWRITTEN_TAG,
     text   |-> s,
     attrib |-> (ORIG_TEXT_ATTRIBUTE :> el.text) @@ (ORIG_TAG_ATTRIBUTE :> el.tag)
                @@ el.attrib]

-----------------------------------------------------------------------------
(* The documents of the model *)

MaxPos    == 3      \* length of the text of a tiling document
MaxLeaves == 2      \* paragraph standoffs of a tiling document
MaxXrefs  == 2      \* xref standoffs of a cross-reference document
MaxCalls  == 2      \* build calls on one NxmlDoc

NoAttrib == [x \in {} |-> ""]

SO(tag, start, end) ==
    [tag |-> tag, start |-> start, end |-> end, attrib |-> NoAttrib,
     children |-> <<>>]

\* two standoffs of one XML tree are nested or disjoint
Laminar(a, b) ==
    \/ a.end <= b.start \/ b.end <= a.start
    \/ (a.start <= b.start /\ b.end <= a.end)
    \/ (b.start <= a.start /\ a.end <= b.end)

Intervals(lo, hi) == {iv \in (lo..hi) \X (lo..hi) : iv[1] <= iv[2]}

\* Every document starts with the standoff of its root element.
\* Tiling documents: front, body and an empty back over a text of MaxPos
\* characters, and up to MaxLeaves paragraphs anywhere, in any order
TileText == SubSeq("abcdefghijkl", 1, MaxPos)

TileLeaves ==
    UNION {{ivs \in [1..n -> Intervals(0, MaxPos)] :
              \A i, j \in 1..n : Laminar([start |-> ivs[i][1], end |-> ivs[i][2]],
                                         [start |-> ivs[j][1], end |-> ivs[j][2]])}
           : n \in 0..MaxLeaves}

TileDoc(f, ivs) ==
    <<SO("article", 0, MaxPos), SO("front", 0, f), SO("body", f, MaxPos), SO("back", MaxPos, MaxPos)>>
    \o [i \in 1..Len(ivs) |-> SO("p", ivs[i][1], ivs[i][2])]

TileDocs ==
    {TileDoc(x[1], x[2]) :
       x \in {y \in {0, 1} \X TileLeaves :
                \A i \in 1..Len(y[2]) :
                    Laminar([start |-> y[2][i][1], end |-> y[2][i][2]],
                            [start |-> 0, end |-> y[1]])}}

\* the bibliographies of the model: <ref> elements with their descendant tags
Desc(name, txt) == [name |-> name, text |-> txt]

RefSmith ==
    [id |-> "r1",
     desc |-> <<Desc("name", "SmithJ"), Desc("surname", "Smith"),
                Desc("given-names", "J"), Desc("year", "2020")>>]

RefJones ==
    [id |-> "r2",
     desc |-> <<Desc("name", "JonesA"), Desc("surname", "Jones"),
                Desc("given-names", "A"), Desc("name", "O'NeilB"),
                Desc("surname", "O'Neil"), Desc("given-names", "B"),
                Desc("year", "1999a"), Desc("volume", "7"), Desc("fpage", "12")>>]

RefNoAuthor == [id |-> "r3", desc |-> <<Desc("source", "Nature"), Desc("year", "in press")>>]

RefLists == {<<>>, <<RefSmith>>, <<RefSmith, RefJones>>, <<RefNoAuthor>>}

\* Structure documents: title, abstract, one section with a title and a
\* paragraph, one back paragraph; any of front, abstract, body, back may be
\* missing, and the tags may come qualified by a namespace
StructText == "TT AA SS PP BB"

StructDoc(ns, hasFront, hasAbs, hasBody, hasBack) ==
    LET T(tag, a, b) == SO(ns \o tag, a, b)
        sec == [T("sec", 6, 11) EXCEPT
                  !.attrib = "sec-type" :> "intro",
                  !.children = <<[tag |-> ns \o "title", text |-> "SS"],
                                 [tag |-> ns \o "p", text |-> "PP"]>>]
    IN  <<T("article", 0, Len(StructText))>>
        \o (IF hasFront THEN <<T("front", 0, 5), T("article-title", 0, 2)>> ELSE <<>>)
        \o (IF hasFront /\ hasAbs THEN <<T("abstract", 3, 5)>> ELSE <<>>)
        \o (IF hasBody THEN <<T("body", 6, 11), sec, T("title", 6, 8), T("p", 9, 11)>>
            ELSE <<>>)
        \o (IF hasBack THEN <<T("back", 12, 14), T("p", 12, 14)>> ELSE <<>>)

StructDocs ==
    {StructDoc(ns, b[1], b[2], b[3], b[4]) :
        ns \in {"", "{nlm}"}, b \in BOOLEAN \X BOOLEAN \X BOOLEAN \X BOOLEAN}

\* Cross-reference documents: one paragraph over the whole text and up to
\* MaxXrefs xref standoffs inside it, in any order of the collection
XrefTexts == {"as shown (Smith 2020)",
              "Jones and O''Neil, 1999 &lt; Smith et al 2020",
              "see Smith, 2020 or Smith  2020 in 2021"}

XrefSlots == {<<1, 3>>, <<5, 9>>, <<10, 14>>}

XrefAttribs ==
    {("ref-type" :> "bibr") @@ ("rid" :> "r1"),
     ("ref-type" :> "bibr") @@ ("rid" :> "r9"),
     ("ref-type" :> "fig") @@ ("rid" :> "f1"),
     ("rid" :> "r1")}

Xref(slot, attrib) == [SO("xref", slot[1], slot[2]) EXCEPT !.attrib = attrib]

XrefSeqs ==
    UNION {{xs \in [1..n -> {Xref(sl, a) : sl \in XrefSlots, a \in XrefAttribs}] :
              \A i, j \in 1..n : i # j => xs[i].start # xs[j].start}
           : n \in 0..MaxXrefs}

XrefDoc(txt, xs) ==
    <<SO("article", 0, Len(txt)), SO("front", 0, 0), SO("body", 0, Len(txt)), SO("p", 0, Len(txt))>> \o xs
    \o <<SO("back", Len(txt), Len(txt))>>

\* Section documents: a section without a title whose first child is a
\* section with a title and a paragraph, followed by a paragraph of the outer
\* section; the two sections start at the same offset and come in either order
\* in the collection
SecText == "In P1 P2"

SecDoc(innerFirst) ==
    LET inner == [SO("sec", 0, 5) EXCEPT
                    !.children = <<[tag |-> "title", text |-> "In"],
                                   [tag |-> "p", text |-> "P1"]>>]
        outer == [SO("sec", 0, 8) EXCEPT
                    !.children = <<[tag |-> "sec", text |-> None],
                                   [tag |-> "p", text |-> "P2"]>>]
    IN  <<SO("article", 0, 8), SO("front", 0, 0), SO("body", 0, 8)>>
        \o (IF innerFirst THEN <<inner, outer>> ELSE <<outer, inner>>)
        \o <<SO("title", 0, 2), SO("p", 3, 5), SO("p", 6, 8), SO("back", 8, 8)>>

SecDocs == {SecDoc(innerFirst) : innerFirst \in BOOLEAN}

\* the documents as <<text, standoffs, refs>>
Docs ==
    {<<TileText, d, <<RefSmith>>>> : d \in TileDocs}
    \cup {<<StructText, d, <<RefSmith>>>> : d \in StructDocs}
    \cup {<<SecText, d, <<RefSmith>>>> : d \in SecDocs}
    \cup {<<t, XrefDoc(t, xs), <<RefSmith>>>> : t \in XrefTexts, xs \in XrefSeqs}
    \cup {<<t, XrefDoc(t, xs), rl>> :
             t \in XrefTexts, xs \in {x \in XrefSeqs : Len(x) <= 1}, rl \in RefLists}

-----------------------------------------------------------------------------
(* The calls *)

Pending == [kind |-> "pending", rows |-> <<>>, exc |-> ""]
Returned(kind, rows) == [kind |-> kind, rows |-> rows, exc |-> ""]
Raised(exc) == [kind |-> "raise", rows |-> <<>>, exc |-> exc]

NoStats == [rewrites |-> 0, cache_hits |-> 0, cache_misses |-> 0,
            conversions_ok |-> 0, conversions_err |-> 0]

\* no process_tree call under way
TexIdle ==
    /\ elems = <<>> /\ cache = <<>> /\ stats = NoStats /\ e_ = 0
    /\ tpc = "idle" /\ tmpfile = FALSE /\ outdir = {} /\ tex_out_fn = ""
    /\ s_ = None /\ tret = Pending

\* no build call has been completed
NoCall == [fn |-> "none", ret |-> Pending, cands |-> <<>>, so |-> <<>>]

\* the calls are not recorded
Unrecorded == [fn |-> "unrecorded", ret |-> Pending, cands |-> <<>>, so |-> <<>>]

\* the step that completes the first build call records the method, what it
\* returned or raised, its candidates and the standoffs it leaves
Remember ==
    first' = IF first = NoCall /\ calls' = 1
             THEN [fn |-> fn', ret |-> ret', cands |-> text_so_list',
                   so |-> standoffs']
             ELSE first

\* no pipeline uses a cache
CacheIdle ==
    /\ pfile = [ok |-> FALSE, map |-> <<>>]
    /\ dbfile = [ok |-> FALSE, rows |-> <<>>]
    /\ pl = <<>> /\ log = <<>>

\* nxmldoc.main is not run
MainIdle ==
    /\ argv = <<>> /\ nxml_exists = FALSE /\ mpc = "idle"
    /\ mret = Pending /\ stderr = <<>> /\ made = {}

\* no NxmlDoc exists
DocIdle ==
    /\ text = "" /\ standoffs = <<>> /\ refs = <<>>
    /\ fn = "none" /\ pc = "idle"
    /\ text_so_list = <<>> /\ last_so = 0 /\ k = 0
    /\ text_tuples = <<>> /\ ret = Pending /\ calls = 0 /\ first = Unrecorded

Init ==
    /\ \E d \in Docs : text = d[1] /\ standoffs = d[2] /\ refs = d[3]
    /\ fn = "none" /\ pc = "idle"
    /\ text_so_list = <<>> /\ last_so = 0 /\ k = 0
    /\ text_tuples = <<>> /\ ret = Pending /\ calls = 0 /\ first = Unrecorded
    /\ TexIdle /\ CacheIdle /\ MainIdle

\* a call of build_simple_document_dataframe / build_enhanced_document_dataframe
\* up to and including "text_so_list = sorted(...)"
CallBuild(m) ==
    /\ pc \in {"idle", "returned", "raised"}
    /\ calls < MaxCalls
    /\ fn' = m
    /\ text_tuples' = <<>> /\ last_so' = 0
    /\ IF Len(ByTag(m, standoffs, "body")) = 0
       THEN /\ pc' = "returned" /\ ret' = Returned("None", <<>>)
            /\ calls' = calls + 1
            /\ text_so_list' = <<>> /\ k' = 0
       ELSE IF SelectionRaises(m, standoffs)
       THEN /\ pc' = "raised" /\ ret' = Raised("IndexError")
            /\ calls' = calls + 1
            /\ text_so_list' = <<>> /\ k' = 0
       ELSE /\ pc' = "tile" /\ ret' = Pending
            /\ calls' = calls
            /\ text_so_list' =
                 SortedByStart(SelectFrom(m, standoffs, text_tag_types), standoffs)
            /\ k' = 1
    /\ UNCHANGED <<text, standoffs, refs>>
    /\ UNCHANGED <<texvars, cachevars, mainvars>>
    /\ Remember

\* one iteration of "for so in text_so_list" of the tiling
TileStep ==
    /\ pc = "tile" /\ k <= Len(text_so_list)
    /\ LET so == text_so_list[k]
       IN  /\ standoffs' =
                IF last_so # 0
                THEN [standoffs EXCEPT
                        ![last_so].end = TileEnd(standoffs[last_so], standoffs[so])]
                ELSE standoffs
           /\ last_so' = so
    /\ k' = k + 1
    /\ UNCHANGED <<text, refs, fn, pc, text_so_list, text_tuples, ret, calls>>
    /\ UNCHANGED <<texvars, cachevars, mainvars>>
    /\ Remember

\* the tiling loop ends, the loop over enumerate(text_so_list) starts
TileDone ==
    /\ pc = "tile" /\ k > Len(text_so_list)
    /\ pc' = "emit" /\ k' = 1
    /\ UNCHANGED <<text, standoffs, refs, fn, text_so_list, last_so,
                   text_tuples, ret, calls>>
    /\ UNCHANGED <<texvars, cachevars, mainvars>>
    /\ Remember

\* what the try block's handlers catch: nothing, etree.XMLSyntaxError or
\* UnicodeDecodeError
Caught == {"", "XMLSyntaxError", "UnicodeDecodeError"}

\* one iteration of "for local_id, so in enumerate(text_so_list)"; when the
\* iteration raises what a handler of the try block catches, the handler
\* prints and the method goes on to "text_df = pd.DataFrame(text_tuples, ...);
\* return text_df"
EmitStep ==
    /\ pc = "emit" /\ k <= Len(text_so_list)
    /\ \E err \in Caught :
       LET so == text_so_list[k]
       IN  IF err # ""
           THEN /\ pc' = "returned"
                /\ ret' = [kind |-> "DataFrame", rows |-> text_tuples, exc |-> err]
                /\ calls' = calls + 1
                /\ UNCHANGED <<text_tuples, k>>
           ELSE IF fn = "enhanced" /\ XrefKeyError(fn, standoffs, so)
           THEN /\ pc' = "raised" /\ ret' = Raised("KeyError")
                /\ calls' = calls + 1
                /\ UNCHANGED <<text_tuples, k>>
           ELSE /\ text_tuples' = Append(text_tuples,
                     IF fn = "enhanced"
                     THEN EnhancedRow(text, standoffs,
                                      extract_ref_dict_from_nxml(refs), so, k - 1)
                     ELSE SimpleRow(text, standoffs, so, k - 1))
                /\ k' = k + 1
                /\ UNCHANGED <<pc, ret, calls>>
    /\ UNCHANGED <<text, standoffs, refs, fn, text_so_list, last_so>>
    /\ UNCHANGED <<texvars, cachevars, mainvars>>
    /\ Remember

\* "text_df = pd.DataFrame(text_tuples, ...); return text_df"
ReturnTable ==
    /\ pc = "emit" /\ k > Len(text_so_list)
    /\ pc' = "returned" /\ ret' = Returned("DataFrame", text_tuples)
    /\ calls' = calls + 1
    /\ UNCHANGED <<text, standoffs, refs, fn, text_so_list, last_so, k, text_tuples>>
    /\ UNCHANGED <<texvars, cachevars, mainvars>>
    /\ Remember

Next ==
    \/ CallBuild("simple")
    \/ CallBuild("enhanced")
    \/ TileStep
    \/ TileDone
    \/ EmitStep
    \/ ReturnTable

Spec == Init /\ [][Next]_vars


-----------------------------------------------------------------------------
(* Properties of the passage assembly *)

Cand(i) == standoffs[text_so_list[i]]

Tiled == pc = "emit" \/ (pc = "returned" /\ ret.kind = "DataFrame")

\* C1: once the tiling loop has ended, the candidates are in start order and
\* every candidate ends no later than the next one starts
C1_TilingInvariant ==
    Tiled =>
        \A i \in 1..(Len(text_so_list) - 1) :
            /\ Cand(i).start <= Cand(i + 1).start
            /\ Cand(i).end <= Cand(i + 1).start

\* two candidates that shared a start offset have been tiled: the first was
\* cut to end before its own start
C1_Witness ==
    /\ Tiled
    /\ \E i \in 1..(Len(text_so_list) - 1) :
          /\ Cand(i).start = Cand(i + 1).start
          /\ Cand(i).end = Cand(i + 1).start - 1

\* C2: every span satisfies 0 <= start <= end <= len(text) in every state, and
\* every emitted passage has offset >= 0 and length >= 0
C2_SpanInvariant ==
    /\ \A i \in 1..Len(standoffs) :
          /\ 0 <= standoffs[i].start
          /\ standoffs[i].start <= standoffs[i].end
          /\ standoffs[i].end <= Len(text)
    /\ \A i \in 1..Len(text_tuples) :
          text_tuples[i].OFFSET >= 0 /\ text_tuples[i].LENGTH >= 0

HasPart(m, part) == ByTag(m, standoffs, part) # <<>>

\* C3: a document without a body span makes either method return a table with
\* no rows
C3_NoBodyEmptyTable ==
    (pc \in {"returned", "raised"} /\ ~HasPart(fn, "body")) =>
        (ret.kind = "DataFrame" /\ ret.rows = <<>>)

\* C4: with a body but no back (or no front) the call does not fail and emits
\* one passage per leaf standoff inside the containers the document has,
\* numbered from 0; the title + section title + paragraph document yields 3
C4_MissingContainerTolerated ==
    (fn # "none" /\ HasPart(fn, "body")
     /\ (~HasPart(fn, "back") \/ ~HasPart(fn, "front"))) =>
        /\ ret.kind # "raise"
        /\ (pc = "returned" /\ ret.exc = "") =>
              /\ ret.kind = "DataFrame"
              /\ Len(ret.rows) = Len(SelectFrom(fn, standoffs, text_tag_types))
              /\ \A i \in 1..Len(ret.rows) : ret.rows[i].PARAGRAPH_ID = i - 1
              /\ standoffs = StructDoc("", TRUE, FALSE, TRUE, FALSE)
                    => Len(ret.rows) = 3

\* C5: every passage of an article-title or abstract candidate carries the
\* sentinel in its three section fields, whichever method built it
C5_TiabOverride ==
    \A i \in 1..Len(text_tuples) :
        StripNs(text_tuples[i].TAG) \in {"article-title", "abstract"} =>
            /\ text_tuples[i].TOP_SECTION = TIAB
            /\ text_tuples[i].SECTION_TREE = TIAB
            /\ text_tuples[i].SECTION = TIAB


HasBibr(c) ==
    \E i \in 1..Len(InsideXrefs("enhanced", standoffs, c)) :
        AttrGet(standoffs[InsideXrefs("enhanced", standoffs, c)[i]],
                "ref-type", "") = "bibr"

RECURSIVE ExpectedXrefText(_, _, _)
\* the text of candidate c from offset i on, read left to right: a character
\* outside every bibr/fig xref stands for itself, an xref for its token
ExpectedXrefText(c, dict, i) ==
    LET xs == {p \in 1..Len(standoffs) :
                 /\ StripNs(standoffs[p].tag) = "xref"
                 /\ AttrGet(standoffs[p], "ref-type", "") \in {"bibr", "fig"}
                 /\ standoffs[p].start = i
                 /\ standoffs[p].end <= standoffs[c].end}
    IN  IF i >= standoffs[c].end THEN ""
        ELSE IF xs = {} THEN Slice(text, i, i + 1) \o ExpectedXrefText(c, dict, i + 1)
        ELSE LET x == standoffs[CHOOSE p \in xs : TRUE]
             IN  (IF x.attrib["ref-type"] = "bibr"
                  THEN XrefRefText(dict, x.attrib["rid"])
                  ELSE Slice(text, x.start, x.end) \o " <<FIG:" \o x.attrib["rid"] \o ">>")
                 \o ExpectedXrefText(c, dict, x.end)

\* C6: a candidate holding a bibr xref is rendered as its text with every
\* bibr/fig xref replaced by its token and every other character kept once and
\* in order (up to the final unescaping of entities), whatever the order of the
\* xrefs in the span collection
C6_ExplicitXrefPath ==
    fn = "enhanced" =>
        \A i \in 1..Len(text_tuples) :
            HasBibr(text_so_list[i]) =>
                text_tuples[i].PLAIN_TEXT =
                    Unescape(ExpectedXrefText(text_so_list[i],
                                              extract_ref_dict_from_nxml(refs),
                                              standoffs[text_so_list[i]].start))

AllSpace(w) == Len(w) >= 1 /\ \A i \in 1..Len(w) : IsSpace(Ch(w, i))

\* the citations of Smith 2020 the fallback recognises, as a language: Smith,
\* then nothing or " and Smith," or "," or " et al.," or " et al", then
\* whitespace, then 2020
SmithCitation(w) ==
    /\ Len(w) >= 10
    /\ SubSeq(w, 1, 5) = "Smith"
    /\ SubSeq(w, Len(w) - 3, Len(w)) = "2020"
    /\ LET mid == SubSeq(w, 6, Len(w) - 4)
       IN  \E j \in 0..(Len(mid) - 1) :
              LET o == SubSeq(mid, 1, j)
                  z == SubSeq(mid, j + 1, Len(mid))
              IN  /\ AllSpace(z)
                  /\ \/ o \in {"", ",", " and Smith,"}
                     \/ \E n \in 1..Len(o) :
                           /\ AllSpace(SubSeq(o, 1, n))
                           /\ SubSeq(o, n + 1, Len(o)) \in {"et al.,", "et al"}

CitationEnds(u, i) == {j \in i..Len(u) : SmithCitation(SubSeq(u, i, j))}

RECURSIVE ExpectedFallback(_, _, _)
\* u from position i on with every citation, leftmost first, replaced by token
ExpectedFallback(u, i, token) ==
    LET starts == {p \in i..Len(u) : CitationEnds(u, p) # {}}
        p      == CHOOSE x \in starts : \A y \in starts : x <= y
    IN  IF starts = {} THEN Rest(u, i)
        ELSE Slice(u, i - 1, p - 1) \o token
             \o ExpectedFallback(u, (CHOOSE j \in CitationEnds(u, p) : TRUE) + 1, token)

\* the rows the regex fallback renders against the one entry Smith 2020
FallbackRows ==
    IF fn = "enhanced" /\ refs = <<RefSmith>>
    THEN {i \in 1..Len(text_tuples) : ~HasBibr(text_so_list[i])}
    ELSE {}

\* the text the fallback starts from: figure xrefs substituted, entities unescaped
FallbackInput(c) ==
    Unescape(Piecewise(text, standoffs,
                       OfType(standoffs, InsideXrefs("enhanced", standoffs, c), {"fig"}),
                       <<>>, standoffs[c].start, standoffs[c].end))

FallbackHolds(token, example) ==
    \A i \in FallbackRows :
        LET u == FallbackInput(text_so_list[i])
        IN  /\ \A p \in 1..Len(u) : Cardinality(CitationEnds(u, p)) <= 1
            /\ text_tuples[i].PLAIN_TEXT = ExpectedFallback(u, 1, token)
            /\ u = "as shown (Smith 2020)" => text_tuples[i].PLAIN_TEXT = example

C8_ContainmentQuery ==
    \A t \in 1..Len(standoffs) :
        LET hits == Hits(t, standoffs)
        IN  /\ {hits[i] : i \in 1..Len(hits)} =
                 {p \in 1..Len(standoffs) :
                    /\ p # t
                    /\ standoffs[p].start <= standoffs[t].start
                    /\ standoffs[t].start < standoffs[p].end}
            /\ \A i, j \in 1..Len(hits) :
                  i < j => /\ hits[i] # hits[j]
                           /\ standoffs[hits[i]].start <= standoffs[hits[j]].start

\* a passage has been emitted for a span with two enclosing spans that start
\* at different offsets and a zero-length span at its own start that is no hit
C8_Witness ==
    \E r \in 1..Len(text_tuples) :
        LET t    == text_so_list[r]
            hits == Hits(t, standoffs)
        IN  /\ Len(hits) >= 2
            /\ standoffs[hits[1]].start < standoffs[hits[Len(hits)]].start
            /\ \E p \in 1..Len(standoffs) :
                  /\ p # t /\ standoffs[p].start = standoffs[t].start
                  /\ standoffs[p].end = standoffs[p].start
                  /\ \A i \in 1..Len(hits) : hits[i] # p

-----------------------------------------------------------------------------
(* rewritetex.py: process_tree over the tex-math elements of one tree *)

MaxElems == 2

Elem(tag, txt, attrib) == [tag |-> tag, text |-> txt, attrib |-> attrib]

\* tex-math elements as root.xpath("//*[local-name()='tex-math']") finds them
ElemKinds ==
    {Elem("tex-math", "\\usepackage{amsmath} $x$", NoAttrib),
     Elem("tex-math", "$x$", NoAttrib),
     Elem("tex-math", " $y$ ", NoAttrib),
     Elem("{m}tex-math", "\\pagestyle{empty}$x$", ("id" :> "M1")),
     Elem("tex-math", "$x$", (ORIG_TAG_ATTRIBUTE :> "old")),
     Elem("tex-math", "\\page\\pagestyle{e}style{e}$x$", NoAttrib)}

\* the maps a cache is loaded with: empty, or what an earlier pass stored
\* (process_tree stores non-empty texts only)
LoadedMaps == {<<>>, ("$x$" :> "x")}

CacheGet_Miss(map, key) == None

CacheGet(map, key) == IF key \in DOMAIN map THEN map[key] ELSE None

CacheSet(map, key, value) == (key :> value) @@ map

Failed_NoneOnly(s) == s = None

\* "if s is None or s == ''"
Failed(s) == s = None \/ s = ""

Bump_Lost(st, field) == st

\* "stats.<field> += 1"
Bump(st, field) == [st EXCEPT ![field] = @ + 1]

TexInit ==
    /\ DocIdle /\ CacheIdle /\ MainIdle
    /\ \E n \in 1..MaxElems : elems \in [1..n -> ElemKinds]
    /\ cache \in LoadedMaps
    /\ stats = NoStats /\ e_ = 0
    /\ tpc = "idle" /\ tmpfile = FALSE /\ outdir = {} /\ tex_out_fn = ""
    /\ s_ = None /\ tret = Pending

\* process_tree(tree, cache, stats) up to the loop
ProcessTree ==
    /\ tpc = "idle"
    /\ tpc' = "loop" /\ e_' = 1
    /\ UNCHANGED <<elems, cache, stats, tmpfile, outdir, tex_out_fn, s_, tret>>
    /\ UNCHANGED <<docvars, cachevars, mainvars>>

\* "rewrite_tex_element(e, mapped); stats.rewrites += 1", then the next element
Rewrite(st, mapped) ==
    IF RewriteAsserts(elems[e_])
    THEN /\ tpc' = "raised" /\ tret' = Raised("AssertionError")
         /\ stats' = st
         /\ UNCHANGED <<elems, e_>>
    ELSE /\ elems' = [elems EXCEPT ![e_] = rewrite_tex_element(@, mapped)]
         /\ stats' = Bump(st, "rewrites")
         /\ e_' = e_ + 1 /\ tpc' = "loop"
         /\ UNCHANGED tret

\* one iteration whose cache.get(tex_norm) is not None
CacheHit ==
    /\ tpc = "loop" /\ e_ <= Len(elems)
    /\ LET mapped == CacheGet(cache, normalize_tex(elems[e_].text))
       IN  /\ mapped # None
           /\ Rewrite(Bump(stats, "cache_hits"), mapped)
    /\ UNCHANGED <<cache, tmpfile, outdir, tex_out_fn, s_>>
    /\ UNCHANGED <<docvars, cachevars, mainvars>>

\* one iteration whose cache.get(tex_norm) is None, up to tex2str's
\* NamedTemporaryFile, which is created or raises IOError
CacheMiss ==
    /\ tpc = "loop" /\ e_ <= Len(elems)
    /\ CacheGet(cache, normalize_tex(elems[e_].text)) = None
    /\ stats' = Bump(stats, "cache_misses")
    /\ \E created \in BOOLEAN :
         IF created
         THEN /\ tmpfile' = TRUE /\ tpc' = "compile"
              /\ UNCHANGED tret
         ELSE /\ tpc' = "raised" /\ tret' = Raised("IOError")
              /\ UNCHANGED tmpfile
    /\ UNCHANGED <<elems, cache, e_, outdir, tex_out_fn, s_>>
    /\ UNCHANGED <<docvars, cachevars, mainvars>>

\* tex2str from "tex_out_fn = tex_compile(tex_tmp.name)" up to the call of
\* run_catdvi; the temporary file goes when the with block is left
TexCompile ==
    /\ tpc = "compile"
    /\ \E outcome \in TexOutcomes :
         LET out == tex_compile(outcome)
         IN  /\ outdir' = outdir \cup {<<e_, a>> : a \in TexArtifacts(outcome)}
             /\ IF out = UnicodeDecodeError
                THEN /\ tpc' = "raised" /\ tret' = Raised("UnicodeDecodeError")
                     /\ tmpfile' = FALSE
                     /\ UNCHANGED <<tex_out_fn, s_>>
                ELSE IF out = None
                THEN /\ s_' = None /\ tpc' = "use"
                     /\ tmpfile' = FALSE
                     /\ UNCHANGED <<tex_out_fn, tret>>
                ELSE /\ tex_out_fn' = (IF out = "" THEN "/tmp/" \o "tmp.dvi" ELSE out)
                     /\ tpc' = "catdvi"
                     /\ UNCHANGED <<tmpfile, s_, tret>>
    /\ UNCHANGED <<elems, cache, stats, e_>>
    /\ UNCHANGED <<docvars, cachevars, mainvars>>

\* tex2str from "dvistr = run_catdvi(tex_out_fn)" to its end
RunCatdvi ==
    /\ tpc = "catdvi"
    /\ \E outcome \in CatdviOutcomes :
         LET out == tex2str_tail(outcome)
         IN  IF out = TypeError
             THEN /\ tpc' = "raised" /\ tret' = Raised("TypeError")
                  /\ UNCHANGED s_
             ELSE /\ s_' = out /\ tpc' = "use"
                  /\ UNCHANGED tret
    /\ tmpfile' = FALSE
    /\ UNCHANGED <<elems, cache, stats, e_, outdir, tex_out_fn>>
    /\ UNCHANGED <<docvars, cachevars, mainvars>>

\* the rest of the iteration after "s = tex2str(tex)"
UseResult ==
    /\ tpc = "use"
    /\ IF Failed(s_)
       THEN /\ stats' = Bump(stats, "conversions_err")
            /\ e_' = e_ + 1 /\ tpc' = "loop"
            /\ UNCHANGED <<elems, cache, tret>>
       ELSE /\ cache' = CacheSet(cache, normalize_tex(elems[e_].text), s_)
            /\ Rewrite(Bump(stats, "conversions_ok"), s_)
    /\ UNCHANGED <<tmpfile, outdir, tex_out_fn, s_>>
    /\ UNCHANGED <<docvars, cachevars, mainvars>>

\* "return tree"
ProcessTreeReturn ==
    /\ tpc = "loop" /\ e_ > Len(elems)
    /\ tpc' = "returned" /\ tret' = Returned("tree", elems)
    /\ UNCHANGED <<elems, cache, stats, e_, tmpfile, outdir, tex_out_fn, s_>>
    /\ UNCHANGED <<docvars, cachevars, mainvars>>

TexNext ==
    \/ ProcessTree
    \/ CacheHit
    \/ CacheMiss
    \/ TexCompile
    \/ RunCatdvi
    \/ UseResult
    \/ ProcessTreeReturn

SpecTex == TexInit /\ [][TexNext]_vars

-----------------------------------------------------------------------------
(* Properties of the math pass *)

\* C9: whichever stage of the external toolchain fails (the compiler, the
\* invocation of the renderer, an empty renderer output, the decoding of the
\* renderer output), tex2str hands a failure value to process_tree and raises
\* nothing, so no run of process_tree ends in the TypeError that only those
\* stages can raise.
C9_StageFailureIsAValue ==
    tpc = "raised" => tret.exc # "TypeError"

\* C10: a step of process_tree that receives a failed conversion (None or the
\* empty string) leaves the cache and every element as they are, and a step
\* that changes an element gives it the rewritten tag and a non-empty text, and
\* a step that changes the cache stores a non-empty text.
C10_FailureLeavesCacheAndElement ==
    [][/\ (tpc = "use" /\ (s_ = None \/ s_ = "")) => (cache' = cache /\ elems' = elems)
       /\ \A i \in 1..Len(elems) :
            elems'[i] # elems[i] =>
               /\ elems'[i].tag = REWRITTEN_TAG
               /\ elems'[i].text \notin {None, ""}
       /\ \A key \in DOMAIN cache' :
            (key \notin DOMAIN cache \/ cache'[key] # cache[key]) =>
               cache'[key] \notin {None, ""}]_vars

\* a pass that has ended with one conversion that failed with the empty string,
\* its element untouched, and one element rewritten
C10_Witness ==
    /\ tpc = "returned"
    /\ stats.conversions_err = 1 /\ stats.rewrites = 1
    /\ \E i \in 1..Len(elems) : elems[i].tag # REWRITTEN_TAG
    /\ s_ = ""

-----------------------------------------------------------------------------
(* rewritetex.py: Cache, PickleCache, SqliteCache and get_cache, used by    *)
(* pipelines that run side by side on one file system                      *)

MaxSets == 2

Pipelines == {"A", "B"}

CacheClasses == {"Cache", "PickleCache", "SqliteCache"}

TexKeys == {"$x$", "$y$"}

Texts == {"x", "y"}

AttributeError == "<AttributeError>"

\* "SELECT txt FROM tex2txt WHERE tex = ?", fetchone, row[0] or None
SqliteGet(rows, key) == IF key \in DOMAIN rows THEN rows[key] ELSE None

SqliteSet_OrIgnore(rows, key, value) == rows @@ (key :> value)

\* "INSERT OR REPLACE INTO tex2txt VALUES (?,?)" on the table whose primary
\* key is tex, and the commit
SqliteSet(rows, key, value) == (key :> value) @@ rows

\* a cache object: its class, its _map, its db (TRUE for a connection, FALSE
\* for None), and whether get_cache made it after load had failed
CacheObj(cls, map, db, fallback) ==
    [cls |-> cls, map |-> map, db |-> db, fallback |-> fallback]

\* cls.load(): the object it returns, or the exception it raises.  Cache has
\* no load; PickleCache.load re-raises what open or pickle raise;
\* SqliteCache.load raises what sqlite3.connect raises.
CacheLoad(cls, pf, dbf) ==
    CASE cls = "PickleCache" ->
           IF pf.ok THEN CacheObj(cls, pf.map, FALSE, FALSE) ELSE "<IOError>"
      [] cls = "SqliteCache" ->
           IF dbf.ok THEN CacheObj(cls, <<>>, TRUE, FALSE) ELSE "<OperationalError>"
      [] OTHER -> AttributeError

\* get_cache(cls): "try: return cls.load()  except Exception: return cls()"
get_cache(cls, pf, dbf) ==
    IF (cls = "PickleCache" /\ pf.ok) \/ (cls = "SqliteCache" /\ dbf.ok)
    THEN CacheLoad(cls, pf, dbf)
    ELSE CacheObj(cls, <<>>, FALSE, TRUE)

\* whether c.get and c.set raise: SqliteCache calls self.db.cursor()
CacheRaises(c) == c.cls = "SqliteCache" /\ ~c.db

\* c.get(key) for an object on which get does not raise
CacheObjGet(c, rows, key) ==
    IF c.cls = "SqliteCache" THEN SqliteGet(rows, key) ELSE CacheGet(c.map, key)

NoGet == [key |-> None, value |-> None]

NewPipeline(cls) ==
    [obj |-> CacheObj(cls, <<>>, FALSE, FALSE), st |-> "new", got |-> NoGet,
     exc |-> ""]

CacheInit ==
    /\ DocIdle /\ TexIdle /\ MainIdle
    /\ pfile \in {[ok |-> FALSE, map |-> <<>>], [ok |-> TRUE, map |-> <<>>]}
    /\ dbfile \in {[ok |-> FALSE, rows |-> <<>>], [ok |-> TRUE, rows |-> <<>>]}
    /\ \E cls \in CacheClasses : pl = [p \in Pipelines |-> NewPipeline(cls)]
    /\ log = <<>>

\* "cache = get_cache()" of pipeline p
GetCacheStep(p) ==
    /\ pl[p].st = "new"
    /\ pl' = [pl EXCEPT ![p].obj = get_cache(@.cls, pfile, dbfile),
                        ![p].st = "open"]
    /\ UNCHANGED <<pfile, dbfile, log>>
    /\ UNCHANGED <<docvars, texvars, mainvars>>

\* "cache.set(key, value)" of pipeline p
CacheSetStep(p) ==
    /\ pl[p].st = "open" /\ Len(log) < MaxSets
    /\ \E key \in TexKeys, value \in Texts :
         IF CacheRaises(pl[p].obj)
         THEN /\ pl' = [pl EXCEPT ![p].st = "raised", ![p].exc = "AttributeError"]
              /\ UNCHANGED <<dbfile, log>>
         ELSE /\ IF pl[p].obj.cls = "SqliteCache"
                 THEN /\ dbfile' = [dbfile EXCEPT
                                      !.rows = SqliteSet(@, key, value)]
                      /\ UNCHANGED pl
                 ELSE /\ pl' = [pl EXCEPT
                                  ![p].obj.map = CacheSet(@, key, value)]
                      /\ UNCHANGED dbfile
              /\ log' = Append(log, <<p, key, value>>)
    /\ UNCHANGED pfile
    /\ UNCHANGED <<docvars, texvars, mainvars>>

\* "mapped = cache.get(key)" of pipeline p
CacheGetStep(p) ==
    /\ pl[p].st = "open"
    /\ \E key \in TexKeys :
         IF CacheRaises(pl[p].obj)
         THEN pl' = [pl EXCEPT ![p].st = "raised", ![p].exc = "AttributeError"]
         ELSE pl' = [pl EXCEPT
                       ![p].got = [key |-> key,
                                   value |-> CacheObjGet(pl[p].obj, dbfile.rows, key)]]
    /\ UNCHANGED <<pfile, dbfile, log>>
    /\ UNCHANGED <<docvars, texvars, mainvars>>

\* "cache.save()" of pipeline p.  PickleCache.save writes the whole _map over
\* the file, or warns and leaves the file when the write fails;
\* SqliteCache.save closes the connection, which a fallback object has not;
\* Cache has no save.
CacheSaveStep(p) ==
    /\ pl[p].st = "open"
    /\ LET c == pl[p].obj
       IN  CASE c.cls = "PickleCache" ->
                  \E wrote \in BOOLEAN :
                     /\ pfile' = IF wrote THEN [ok |-> TRUE, map |-> c.map]
                                 ELSE pfile
                     /\ pl' = [pl EXCEPT ![p].st = IF wrote THEN "saved"
                                                   ELSE "unsaved"]
             [] c.cls = "SqliteCache" /\ c.db ->
                  /\ pl' = [pl EXCEPT ![p].st = "saved", ![p].obj.db = FALSE]
                  /\ UNCHANGED pfile
             [] OTHER ->
                  /\ pl' = [pl EXCEPT ![p].st = "raised",
                                      ![p].exc = "AttributeError"]
                  /\ UNCHANGED pfile
    /\ UNCHANGED <<dbfile, log>>
    /\ UNCHANGED <<docvars, texvars, mainvars>>

CacheNext ==
    \E p \in Pipelines :
        \/ GetCacheStep(p)
        \/ CacheSetStep(p)
        \/ CacheGetStep(p)
        \/ CacheSaveStep(p)

SpecCache == CacheInit /\ [][CacheNext]_vars

-----------------------------------------------------------------------------
(* Properties of the caches *)

\* the positions in log of the sets of key that the pipelines in who made
SetsOf(key, who) == {i \in 1..Len(log) : log[i][2] = key /\ log[i][1] \in who}

LastOf(idx) == log[CHOOSE i \in idx : \A j \in idx : j <= i][3]

\* C11: on every cache object on which get and set work, whatever sets have
\* been made, get(key) is the value of the most recent set(key, value) on that
\* cache and None for a key never set on it.  The cache of a SqliteCache is
\* the database the pipelines share; that of a Cache or a PickleCache is the
\* object's own map, in which a PickleCache may also hold what it loaded, that
\* is what a pipeline set and saved before.
C11_GetReturnsLastSet ==
    \A p \in Pipelines :
        (pl[p].st = "open" /\ ~CacheRaises(pl[p].obj)) =>
            \A key \in TexKeys :
                LET c   == pl[p].obj
                    v   == CacheObjGet(c, dbfile.rows, key)
                    own == SetsOf(key, {p})
                    all == SetsOf(key, Pipelines)
                IN  CASE c.cls = "SqliteCache" ->
                           v = (IF all = {} THEN None ELSE LastOf(all))
                      [] c.cls # "SqliteCache" /\ own # {} -> v = LastOf(own)
                      [] c.cls = "Cache" /\ own = {} -> v = None
                      [] OTHER -> v = None \/ \E i \in all : log[i][3] = v

\* a get on a SqliteCache has returned the second of two values set under one
\* key
C11_Witness ==
    \E p \in Pipelines :
        /\ pl[p].obj.cls = "SqliteCache" /\ pl[p].st = "open"
        /\ Len(log) = 2
        /\ log[1][2] = pl[p].got.key /\ log[2][2] = pl[p].got.key
        /\ log[1][3] = "x" /\ log[2][3] = "y"
        /\ pl[p].got.value = "y"

\* C12: the object get_cache returns after load has failed is usable, for
\* PickleCache and for SqliteCache: get and set do not raise on it.
C12_FallbackCacheUsable ==
    \A p \in Pipelines :
        (/\ pl[p].st = "open" /\ pl[p].obj.fallback
         /\ pl[p].obj.cls \in {"PickleCache", "SqliteCache"})
            => ~CacheRaises(pl[p].obj)

-----------------------------------------------------------------------------
(* Further properties of the math pass *)

\* C13: normalize_tex is idempotent: for the text x of every tex-math element
\* of the tree, normalize_tex(normalize_tex(x)) = normalize_tex(x), also when
\* the removal of one declaration brings the characters around it together
\* into another declaration.
C13_NormalizeIdempotent ==
    \A i \in 1..Len(elems) :
        normalize_tex(normalize_tex(elems[i].text)) = normalize_tex(elems[i].text)

\* C14: within one pass, a conversion that succeeds stores its text under
\* normalize_tex of the element's text and no step takes an entry out of the
\* cache or changes it; an iteration that finds the normalized key in the
\* cache counts a hit, leaves the temporary file and TEX_OUTPUTDIR alone, does
\* not go on to tex, and what it rewrites (rewrite_tex_element raising when the
\* element already has the reserved attributes) gets the cached text; tex is
\* started only for a key the cache does not hold.  So the conversions that
\* succeeded are never more than the keys of the cache.
C14_HitSkipsToolchain ==
    [][LET key == normalize_tex(elems[e_].text)
       IN  /\ stats'.conversions_ok # stats.conversions_ok =>
                 /\ key \in DOMAIN cache' /\ cache'[key] = s_
                 /\ key \notin DOMAIN cache
           /\ \A k2 \in DOMAIN cache :
                 k2 \in DOMAIN cache' /\ cache'[k2] = cache[k2]
           /\ (tpc = "loop" /\ e_ <= Len(elems) /\ key \in DOMAIN cache) =>
                 /\ tpc' # "compile"
                 /\ stats'.cache_hits = stats.cache_hits + 1
                 /\ stats'.cache_misses = stats.cache_misses
                 /\ tmpfile' = tmpfile /\ outdir' = outdir
                 /\ IF elems' # elems
                    THEN /\ elems'[e_].text = cache[key]
                         /\ elems'[e_].tag = REWRITTEN_TAG
                    ELSE tpc' = "raised" /\ RewriteAsserts(elems[e_])
           /\ (tpc # "compile" /\ tpc' = "compile") => key \notin DOMAIN cache
           /\ stats'.conversions_ok <= Cardinality(DOMAIN cache')]_vars

\* a pass has ended in which the one conversion that succeeded stored the one
\* entry of the cache, and a later element with another text and the same key
\* was a hit and got the same text
C14_Witness ==
    /\ tpc = "returned" /\ Len(elems) = 2
    /\ stats.conversions_ok = 1 /\ stats.cache_hits = 1
    /\ Cardinality(DOMAIN cache) = 1
    /\ elems[1].tag = REWRITTEN_TAG /\ elems[2].tag = REWRITTEN_TAG
    /\ elems[1].text = elems[2].text
    /\ elems[1].attrib[ORIG_TEXT_ATTRIBUTE] # elems[2].attrib[ORIG_TEXT_ATTRIBUTE]

\* C15: whenever tex2str has finished, by returning a text, by returning None
\* or by raising, its temporary tex file is gone and TEX_OUTPUTDIR holds
\* nothing that tex wrote there.
C15_TemporariesReleased ==
    tpc \in {"loop", "use", "returned", "raised"} => (~tmpfile /\ outdir = {})

-----------------------------------------------------------------------------
(* The cache shared by two pipelines *)

\* what get(key) returns on the object a new call of get_cache returns
FreshGet(cls, key) ==
    CacheObjGet(get_cache(cls, pfile, dbfile), dbfile.rows, key)

\* C16: when both pipelines have used a persistent cache (PickleCache or
\* SqliteCache) and saved it, with their steps interleaved in any way, a cache
\* loaded afresh returns for every key that either pipeline set a value that
\* one of them set under that key.
C16_NoSetLost ==
    (\A p \in Pipelines :
        pl[p].st = "saved" /\ pl[p].obj.cls \in {"PickleCache", "SqliteCache"})
    => \A i \in 1..Len(log) :
          \E j \in 1..Len(log) :
             /\ log[j][2] = log[i][2]
             /\ log[j][3] = FreshGet(pl[log[i][1]].obj.cls, log[i][2])

-----------------------------------------------------------------------------
(* Further properties of the passage assembly *)

\* C17: a build call in which etree.XMLSyntaxError or UnicodeDecodeError was
\* raised while the table was being built returns a table without rows.
C17_ErrorYieldsEmptyTable ==
    (pc = "returned" /\ ret.exc # "") => Len(ret.rows) = 0

-----------------------------------------------------------------------------
(* nxmldoc.py: main *)

\* sys.argv with too few, the right number of, and too many arguments
FullArgv == <<"nxmldoc.py", "in.nxml", "out/df.tsv", "extra">>

Argvs == {SubSeq(FullArgv, 1, n) : n \in 1..Len(FullArgv)}

\* "Usage: %s\n" % usage
Usage == "Usage: nxmldoc.py NXMLFILE_PATH TSV_PATH\n"

\* the state main(argv) starts in: the document is what NxmlDoc(doc_id, xml)
\* makes of the file at argv[1], when there is one
MainInit ==
    /\ \E d \in Docs : text = d[1] /\ standoffs = d[2] /\ refs = d[3]
    /\ fn = "none" /\ pc = "idle"
    /\ text_so_list = <<>> /\ last_so = 0 /\ k = 0
    /\ text_tuples = <<>> /\ ret = Pending /\ calls = 0 /\ first = Unrecorded
    /\ TexIdle /\ CacheIdle
    /\ argv \in Argvs /\ nxml_exists \in BOOLEAN
    /\ mpc = "start" /\ mret = Pending /\ stderr = <<>> /\ made = {}

\* main from its first line to "d = NxmlDoc(doc_id, xml)", or to its return
\* where it does not get there
MainStart ==
    /\ mpc = "start"
    /\ IF Len(argv) > 3
       THEN /\ stderr' = <<Usage>>
            /\ mret' = Returned("1", <<>>) /\ mpc' = "returned"
       ELSE IF Len(argv) < 3
       THEN \* nxml_file_path = argv[1]; df_file_path = argv[2]
            /\ mret' = Raised("IndexError") /\ mpc' = "raised"
            /\ UNCHANGED stderr
       ELSE IF nxml_exists
       THEN /\ mpc' = "build"
            /\ UNCHANGED <<mret, stderr>>
       ELSE /\ stderr' = <<"Input file not found: " \o argv[2] \o "\n", Usage>>
            /\ mret' = Returned("1", <<>>) /\ mpc' = "returned"
    /\ UNCHANGED <<argv, nxml_exists, made>>
    /\ UNCHANGED <<docvars, texvars, cachevars>>

\* "df = d.build_enhanced_document_dataframe()"
MainCallBuild == mpc = "build" /\ calls = 0 /\ CallBuild("enhanced")

MainTileStep == mpc = "build" /\ TileStep

MainTileDone == mpc = "build" /\ TileDone

MainEmitStep == mpc = "build" /\ EmitStep

MainReturnTable == mpc = "build" /\ ReturnTable

\* main after the build call: os.makedirs of the output directory, then
\* df.to_csv, then the end of the function
MainFinish ==
    /\ mpc = "build" /\ pc \in {"returned", "raised"}
    /\ IF pc = "raised"
       THEN /\ mret' = Raised(ret.exc) /\ mpc' = "raised"
            /\ UNCHANGED made
       ELSE IF ret.kind = "None"
       THEN /\ made' = {"out"}
            /\ mret' = Raised("AttributeError") /\ mpc' = "raised"
       ELSE /\ made' = {"out", argv[3]}
            /\ mret' = Returned("None", <<>>) /\ mpc' = "returned"
    /\ UNCHANGED <<argv, nxml_exists, stderr>>
    /\ UNCHANGED <<docvars, texvars, cachevars>>

MainNext ==
    \/ MainStart
    \/ MainCallBuild
    \/ MainTileStep
    \/ MainTileDone
    \/ MainEmitStep
    \/ MainReturnTable
    \/ MainFinish

SpecMain == MainInit /\ [][MainNext]_vars

\* C18: when main is given an argument list that does not hold exactly the two
\* paths, or the input file does not exist, it writes the usage message,
\* returns a non-zero status and creates or writes no file.
C18_UsageAndNoOutput ==
    (mpc \in {"returned", "raised"} /\ (Len(argv) # 3 \/ ~nxml_exists)) =>
        /\ mpc = "returned" /\ mret = Returned("1", <<>>)
        /\ \E i \in 1..Len(stderr) : stderr[i] = Usage
        /\ made = {}

-----------------------------------------------------------------------------
(* Properties of the reference extraction and of the section tree *)

IsSurname(t) == t.name = "surname"

\* C19: for every <ref> whose descendants hold the surnames s1, ..., sn in
\* document order (n >= 1), the entry extract_ref_dict_from_nxml makes for it
\* has first_author s1, second_author s2 when n >= 2, and no second_author when
\* n = 1 (the surnames as stored, with quotes doubled).
C19_AuthorFields ==
    \A i \in 1..Len(refs) :
        LET d  == DictGet(extract_ref_dict_from_nxml(refs), refs[i].id)
            sn == SelectSeq(refs[i].desc, IsSurname)
        IN  Len(sn) >= 1 =>
               /\ d.first_author = EscQuote(sn[1].text)
               /\ Len(sn) >= 2 => d.second_author = EscQuote(sn[2].text)
               /\ Len(sn) = 1 => d.second_author = None

\* the sec standoffs around the start of standoff c
EnclosingSecs(c) ==
    {p \in 1..Len(standoffs) :
        /\ p # c /\ standoffs[p].tag = "sec"
        /\ standoffs[p].start <= standoffs[c].start
        /\ standoffs[c].start < standoffs[p].end}

\* p encloses q properly
Around(p, q) ==
    /\ standoffs[p].start <= standoffs[q].start
    /\ standoffs[q].end <= standoffs[p].end
    /\ standoffs[p].end - standoffs[p].start > standoffs[q].end - standoffs[q].start

\* the title of a section, or the placeholder
SecComponent(p) ==
    IF HasTitle(standoffs[p]) /\ FindTitle(standoffs[p]) # None
    THEN FindTitle(standoffs[p]) ELSE " ??? "

\* the components of the sections around c from the outermost to the innermost,
\* joined by " >> "
ExpectedSecTree(c) ==
    LET secs   == EnclosingSecs(c)
        n      == Cardinality(secs)
        at(r)  == CHOOSE p \in secs :
                     Cardinality({q \in secs : Around(q, p)}) = r - 1
        pieces == [r \in 1..n |->
                     (IF r > 1 THEN " >> " ELSE "") \o SecComponent(at(r))]
    IN  Join(pieces, 1, n)

\* C20: the SECTION_TREE of every row (apart from the rows build_simple gives
\* the TIAB sentinel) is the " >> "-joined sequence of one component per sec
\* element around the row's standoff, from the outermost to the innermost, a
\* section's title or the placeholder, also when nested sections start at the
\* same offset and whatever the order of the standoffs in the collection.
C20_SecTreeInNestingOrder ==
    \A i \in 1..Len(text_tuples) :
        text_tuples[i].SECTION_TREE # TIAB =>
            text_tuples[i].SECTION_TREE = ExpectedSecTree(text_so_list[i])

-----------------------------------------------------------------------------
(* Properties of the namespaces, the statistics and the repeated build *)

\* the standoffs with every tag, and every child's tag, without its namespace
Unqualified(so) ==
    [p \in 1..Len(so) |->
        [so[p] EXCEPT
           !.tag = StripNs(@),
           !.children = [j \in 1..Len(so[p].children) |->
                           [so[p].children[j] EXCEPT !.tag = StripNs(@)]]]]

\* C21: build_enhanced_document_dataframe gives a document whose tags are
\* qualified by a namespace the passages of the same document with unqualified
\* tags: the same candidates in the same order, and in every row the same tag,
\* top-level section, section tree, section title and figure reference.
C21_NamespaceInsensitive ==
    fn = "enhanced" =>
        /\ (pc = "tile" /\ k = 1) =>
              text_so_list =
                 SortedByStart(SelectFrom(fn, Unqualified(standoffs), text_tag_types),
                               Unqualified(standoffs))
        /\ \A i \in 1..Len(text_tuples) :
              LET c == text_so_list[i]
                  u == Unqualified(standoffs)
              IN  /\ text_tuples[i].TAG = u[c].tag
                  /\ text_tuples[i].TOP_SECTION = get_top_level_sec_tag(c, u)
                  /\ text_tuples[i].SECTION_TREE = get_sec_tree(c, u)
                  /\ text_tuples[i].SECTION = get_sec_tag(c, u)
                  /\ text_tuples[i].FIG_REF = get_figure_reference(c, u)

\* C22: at every boundary between two iterations of process_tree's loop, and
\* when it has returned, cache_hits + cache_misses is the number of elements
\* handled, conversions_ok + conversions_err is cache_misses, and rewrites is
\* cache_hits + conversions_ok.
C22_StatsAccounting ==
    tpc \in {"loop", "returned"} =>
        /\ stats.cache_hits + stats.cache_misses = e_ - 1
        /\ stats.conversions_ok + stats.conversions_err = stats.cache_misses
        /\ stats.rewrites = stats.cache_hits + stats.conversions_ok

\* a pass over two elements has returned with one hit and one conversion that
\* failed
C22_Witness ==
    /\ tpc = "returned" /\ e_ = 3
    /\ stats.cache_hits = 1 /\ stats.cache_misses = 1
    /\ stats.conversions_err = 1 /\ stats.rewrites = 1

-----------------------------------------------------------------------------
(* One method of an NxmlDoc called, and then called a second time *)

RepeatInit ==
    /\ \E d \in Docs : text = d[1] /\ standoffs = d[2] /\ refs = d[3]
    /\ fn = "none" /\ pc = "idle"
    /\ text_so_list = <<>> /\ last_so = 0 /\ k = 0
    /\ text_tuples = <<>> /\ ret = Pending /\ calls = 0 /\ first = NoCall
    /\ TexIdle /\ CacheIdle /\ MainIdle

\* the first call of method m, or the second call of the method called first
RepeatCallBuild(m) ==
    /\ calls = 0 \/ (calls = 1 /\ m = first.fn)
    /\ CallBuild(m)

RepeatNext ==
    \/ RepeatCallBuild("simple")
    \/ RepeatCallBuild("enhanced")
    \/ TileStep
    \/ TileDone
    \/ EmitStep
    \/ ReturnTable

SpecRepeat == RepeatInit /\ [][RepeatNext]_vars

\* a call in which no handler of the try block caught an exception
Uncaught(r) == ~(r.kind = "DataFrame" /\ r.exc # "")

====
